---- MODULE Spec2Model ----
(***************************************************************************)
(* A model of scripts/gen.ts: the batch job that loads the bangumi-data    *)
(* dataset into the SQLite file bangumi.db.                                *)
(*                                                                         *)
(* JavaScript values are records [t, v]: t is the type tag and v the       *)
(* value's text as a sequence of tokens (a token is a run of characters    *)
(* the program never splits: "/" and "{{id}}" are tokens of their own).    *)
(* A number carries its decimal rendering, which is what ToString and      *)
(* SQLite's TEXT columns make of it.                                       *)
(***************************************************************************)
EXTENDS Integers, Sequences, FiniteSets, TLC

VARIABLES
  source,   \* the bangumi-data package: items, version, digest of data.json
  db,       \* the contents of bangumi.db
  pc,       \* main's position: start, siteMeta, tx, items, meta, done, aborted
  pos,      \* the index of the next item of the loop over items
  journal,  \* the rollback journal of the open transaction
  run,      \* the number of runs of the script started on this database file
  now,      \* the wall clock, in ms
  err,      \* the error that ended the run, or "none"
  hist,     \* history: the database as the run and its current phase began
  arg,      \* the argument of a call of a pure function
  ret       \* and its result

vars == <<source, db, pc, pos, journal, run, now, err, hist, arg, ret>>

(* ------------------------------ bounds -------------------------------- *)

MaxItems == 2

MaxRuns == 2

(* -------------------------- JavaScript values ------------------------- *)

Undef == [t |-> "undefined", v |-> <<>>]

Null == [t |-> "null", v |-> <<>>]

S(toks) == [t |-> "string", v |-> toks]

N(digits) == [t |-> "number", v |-> digits]

\* if (x): undefined, null, "", 0 and NaN are falsy
Truthy(x) ==
  \/ x.t = "string" /\ x.v # <<>>
  \/ x.t = "number" /\ x.v \notin {<<"0">>, <<"NaN">>}

\* x ?? null
OrNull(x) == IF x.t \in {"undefined", "null"} THEN Null ELSE x

Digit(d) ==
  CASE d = 0 -> "0" [] d = 1 -> "1" [] d = 2 -> "2" [] d = 3 -> "3"
    [] d = 4 -> "4" [] d = 5 -> "5" [] d = 6 -> "6" [] d = 7 -> "7"
    [] d = 8 -> "8" [] d = 9 -> "9"

RECURSIVE NatToStr(_)
\* Number.prototype.toString of a non-negative integer
NatToStr(n) ==
  IF n < 10 THEN <<Digit(n)>> ELSE NatToStr(n \div 10) \o <<Digit(n % 10)>>

IsSpace(tok) == tok \in {" ", "\t", "\n"}

RECURSIVE TrimLeft(_)
TrimLeft(s) ==
  IF s # <<>> /\ IsSpace(Head(s)) THEN TrimLeft(Tail(s)) ELSE s

RECURSIVE TrimRight(_)
TrimRight(s) ==
  IF s # <<>> /\ IsSpace(s[Len(s)]) THEN TrimRight(SubSeq(s, 1, Len(s) - 1))
  ELSE s

\* String.prototype.trim
Trim(s) == TrimRight(TrimLeft(s))

\* String.prototype.indexOf of a one-token pattern, 1-based; 0 when absent
IndexOf(s, pat) ==
  IF \E i \in 1..Len(s) : s[i] = pat
  THEN CHOOSE i \in 1..Len(s) : s[i] = pat /\ \A j \in 1..(i - 1) : s[j] # pat
  ELSE 0

RECURSIVE Split(_, _)
\* String.prototype.split(sep): the pieces between the separators
Split(s, sep) ==
  LET i == IndexOf(s, sep) IN
  IF i = 0 THEN <<s>>
  ELSE <<SubSeq(s, 1, i - 1)>> \o Split(SubSeq(s, i + 1, Len(s)), sep)

RECURSIVE Expand(_, _, _, _)
\* GetSubstitution: the replacement text with its $ patterns expanded
Expand(repl, matched, before, after) ==
  IF repl = <<>> THEN <<>>
  ELSE LET h == Head(repl)
           x == CASE h = "$$" -> <<"$">>
                  [] h = "$&" -> <<matched>>
                  [] h = "$`" -> before
                  [] h = "$'" -> after
                  [] OTHER -> <<h>>
       IN x \o Expand(Tail(repl), matched, before, after)

\* String.prototype.replace(pattern, replacement), a string pattern: the
\* first occurrence only, the replacement converted with ToString
Replace(s, pat, repl) ==
  LET i == IndexOf(s, pat) IN
  IF i = 0 THEN s
  ELSE LET before == SubSeq(s, 1, i - 1)
           after == SubSeq(s, i + 1, Len(s))
       IN before \o Expand(repl.v, pat, before, after) \o after

RECURSIVE Join(_, _)
\* Array.prototype.join of an array of strings
Join(a, sep) ==
  IF a = <<>> THEN <<>>
  ELSE IF Len(a) = 1 THEN a[1]
  ELSE a[1] \o <<sep>> \o Join(Tail(a), sep)

\* Date.parse on the date strings of the model; NaN for any other text
DateParse(s) ==
  CASE s = <<"2021-04-03T15:00:00+09:00">> -> N(<<"1617429600000">>)
    [] s = <<"2021-06-26T15:00:00Z">> -> N(<<"1624719600000">>)
    [] OTHER -> N(<<"NaN">>)

IsNaN(x) == x.t = "number" /\ x.v = <<"NaN">>

toTimestamp(iso) ==
  IF ~Truthy(iso) \/ Trim(iso.v) = <<>> THEN Null
  ELSE LET t == DateParse(iso.v) IN IF IsNaN(t) THEN Null ELSE t

extractBroadcastBegin(broadcast) ==
  IF ~Truthy(broadcast) THEN Null
  ELSE LET parts == Split(broadcast.v, "/") IN
       IF Len(parts) >= 2
       THEN LET t == DateParse(parts[2]) IN IF IsNaN(t) THEN Null ELSE t
       ELSE Null

(* ----------------------- the site-metadata catalog -------------------- *)

NoRegions == [kind |-> "absent", a |-> <<>>]

Regions(a) == [kind |-> "array", a |-> a]

\* a regions attribute that is present and not an array
NotArray == [kind |-> "other", a |-> <<>>]

\* import { siteMeta } from "bangumi-data": three entries of the catalog
siteMeta ==
  [bangumi |->
     [title |-> S(<<"Bangumi">>),
      urlTemplate |-> <<"https://bangumi.tv/subject/", "{{id}}">>,
      type |-> S(<<"info">>), regions |-> NoRegions],
   bilibili |->
     [title |-> S(<<"bilibili">>),
      urlTemplate |-> <<"https://www.bilibili.com/bangumi/media/md", "{{id}}", "/">>,
      type |-> S(<<"onair">>), regions |-> Regions(<<<<"CN">>>>)],
   dmhy |->
     [title |-> S(<<"dmhy">>),
      urlTemplate |-> <<"https://share.dmhy.org/topics/list?keyword=", "{{id}}">>,
      type |-> S(<<"resource">>), regions |-> NoRegions]]

\* Object.keys(siteMeta), in insertion order
siteMetaKeys == <<"bangumi", "bilibili", "dmhy">>

InCatalog(name) == name \in DOMAIN siteMeta

(* ------------------------- the pure derivations ----------------------- *)

\* a Site: [site, id, url, begin, end, broadcast, comment, regions], with
\* hasBegin for the presence of the begin attribute ("begin" in site)
getSiteType(site) ==
  IF site.hasBegin THEN S(<<"onair">>)
  ELSE IF site.site \in {"dmhy", "mikan", "bangumi_moe"} THEN S(<<"resource">>)
  ELSE S(<<"info">>)

resolveUrl(site) ==
  IF ~InCatalog(site.site)
  THEN [url |-> OrNull(site.url), urlTemplate |-> Null, siteTitle |-> Null]
  ELSE LET meta == siteMeta[site.site]
           urlTemplate == S(meta.urlTemplate)
           siteTitle == meta.title
       IN IF Truthy(site.url)
          THEN [url |-> site.url, urlTemplate |-> urlTemplate,
                siteTitle |-> siteTitle]
          ELSE IF Truthy(site.id)
          THEN [url |-> S(Replace(meta.urlTemplate, "{{id}}", site.id)),
                urlTemplate |-> urlTemplate, siteTitle |-> siteTitle]
          ELSE [url |-> Null, urlTemplate |-> urlTemplate,
                siteTitle |-> siteTitle]

\* the regions column of a sites row
siteRegions(site) ==
  IF site.regions.kind = "array" THEN S(Join(site.regions.a, ",")) ELSE Null

(* ------------------------------ the sink ------------------------------ *)

AllTables == {"meta", "items", "title_translations", "sites", "site_meta"}

\* new Database("bangumi.db") on a file that does not exist yet
EmptyDb ==
  [tables |-> {}, meta |-> <<>>, items |-> <<>>, title_translations |-> <<>>,
   sites |-> <<>>, site_meta |-> <<>>,
   sqlite_sequence |-> [items |-> 0, title_translations |-> 0, sites |-> 0]]

\* CREATE TABLE IF NOT EXISTS, five times: an existing table keeps its rows
createTables(d) == [d EXCEPT !.tables = AllTables]

\* the NOT NULL columns that receive a bound value (item_id is always the
\* integer lastInsertRowid)
NotNullColumns(table) ==
  CASE table = "items" -> {"title", "type", "lang"}
    [] table = "title_translations" -> {"language", "title"}
    [] table = "sites" -> {"site_name", "site_title", "site_type"}
    [] table = "site_meta" -> {"title", "url_template", "type"}
    [] OTHER -> {}

ViolatesNotNull(table, row) == \E c \in NotNullColumns(table) : row[c] = Null

\* the result of Statement.run: the database after it, the error it threw
Result(d, e) == [db |-> d, err |-> e]

\* INSERT INTO a table with an INTEGER PRIMARY KEY AUTOINCREMENT
InsertAuto(d, table, row, fault) ==
  IF fault THEN Result(d, "SQLITE_IOERR")
  ELSE IF ViolatesNotNull(table, row) THEN Result(d, "SQLITE_CONSTRAINT_NOTNULL")
  ELSE LET id == d.sqlite_sequence[table] + 1 IN
       Result([d EXCEPT ![table] = Append(@, [row EXCEPT !.id = id]),
                        !.sqlite_sequence[table] = id],
              "none")

\* a row id that is not the one just generated: the first row's
LastInsertRowidStale(d, table) == 1

\* result.lastInsertRowid of the insert that has just run on the table
LastInsertRowid(d, table) == d.sqlite_sequence[table]

\* a meta table with no conflict clause and no primary key: always appends
UpsertAppend(rows, key, value) == Append(rows, [key |-> key, value |-> value])

\* INSERT INTO meta ... ON CONFLICT(key) DO UPDATE SET value = excluded.value
Upsert(rows, key, value) ==
  IF \E k \in 1..Len(rows) : rows[k].key = key
  THEN [k \in 1..Len(rows) |->
          IF rows[k].key = key THEN [rows[k] EXCEPT !.value = value] ELSE rows[k]]
  ELSE Append(rows, [key |-> key, value |-> value])

\* INSERT OR REPLACE INTO site_meta: the row of that site_name is deleted and
\* the new row inserted
InsertOrReplace(rows, row) ==
  Append(SelectSeq(rows, LAMBDA r : r.site_name # row.site_name), row)

\* the count re-derived from the in-memory source instead of the sink
CountFromSource(d, table) ==
  IF table = "items" THEN Len(source.items)
  ELSE LET RECURSIVE Sum(_)
           Sum(k) == IF k = 0 THEN 0
                     ELSE Sum(k - 1) + Len(source.items[k].sites)
       IN Sum(Len(source.items))

\* SELECT COUNT(*) FROM <table>
CountRows(d, table) == Len(d[table])

\* no transaction around the loop: what was written stays
RollbackNothing(d, j) == d

\* db.transaction(fn) when fn throws: ROLLBACK, to the state at BEGIN

Rollback(d, j) == j.snap

NoJournal == [active |-> FALSE, snap |-> EmptyDb]

(* -------------------------- the source dataset ------------------------ *)

BaseSite(name) ==
  [site |-> name, id |-> Undef, url |-> Undef, hasBegin |-> FALSE,
   begin |-> Undef, end |-> Undef, broadcast |-> Undef, comment |-> Undef,
   regions |-> NoRegions]

BaseItem(title) ==
  [title |-> S(<<title>>), type |-> S(<<"tv">>), lang |-> S(<<"ja">>),
   officialSite |-> S(<<>>), begin |-> S(<<>>), end |-> S(<<>>),
   broadcast |-> Undef, comment |-> Undef, titleTranslate |-> <<>>,
   sites |-> <<>>]

\* titleTranslate is the sequence of its [lang, titles] entries in the order
\* Object.entries enumerates them (insertion order: the keys are language tags)
ItemA ==
  [BaseItem("A") EXCEPT
     !.officialSite = S(<<"https://a.example">>),
     !.begin = S(<<"2021-04-03T15:00:00+09:00">>),
     !.end = S(<<"2021-06-26T15:00:00Z">>),
     !.broadcast = S(<<"R", "/", "2021-04-03T15:00:00+09:00", "/", "P7D">>),
     !.titleTranslate = <<[lang |-> "en", titles |-> <<"A1", "A2">>]>>,
     !.sites = <<[BaseSite("bangumi") EXCEPT !.id = S(<<"5">>)]>>]

ItemB ==
  [BaseItem("B") EXCEPT
     !.begin = S(<<" ">>),
     !.broadcast = S(<<"garbage">>),
     !.comment = S(<<"note">>),
     !.titleTranslate = <<[lang |-> "zh-Hans", titles |-> <<"B1">>],
                          [lang |-> "en", titles |-> <<"B2">>]>>,
     !.sites = <<[BaseSite("bilibili") EXCEPT
                    !.id = S(<<"7">>), !.hasBegin = TRUE,
                    !.begin = S(<<"2021-04-03T15:00:00+09:00">>),
                    !.broadcast = S(<<"R", "/", "2021-04-03T15:00:00+09:00", "/", "P7D">>),
                    !.regions = Regions(<<<<"CN">>, <<"TW">>>>)],
                 [BaseSite("bilibili") EXCEPT
                    !.id = S(<<"8">>), !.url = S(<<"https://x.example">>)]>>]

\* a site whose name the catalog does not know
ItemC ==
  [BaseItem("C") EXCEPT
     !.sites = <<[BaseSite("nicovideo") EXCEPT
                    !.url = S(<<"https://nico.example">>)]>>]

\* an id of 0, an empty url, an empty regions array
ItemD ==
  [BaseItem("D") EXCEPT
     !.titleTranslate = <<[lang |-> "en", titles |-> <<>>]>>,
     !.sites = <<[BaseSite("bangumi") EXCEPT !.id = N(<<"0">>)],
                 [BaseSite("bilibili") EXCEPT
                    !.id = S(<<"9">>), !.url = S(<<>>),
                    !.regions = Regions(<<>>)]>>]

ItemE ==
  [BaseItem("E") EXCEPT
     !.sites = <<[BaseSite("dmhy") EXCEPT
                    !.id = S(<<"k", "$&">>), !.regions = NotArray]>>]

ItemPool == {ItemA, ItemB, ItemC, ItemD, ItemE}

\* import { items } from "bangumi-data", with the package's version and the
\* digest of dist/data.json
Datasets ==
  {[items |-> its, version |-> S(<<"0.3.150">>),
    dataHash |-> S(<<"sha256:", "data.json">>)] :
     its \in UNION {[1..n -> ItemPool] : n \in 0..MaxItems}}

\* fileHash(path): the SHA-256 digest of the file's bytes
fileHash(src) == src.dataHash

(* ----------------------------- the handlers --------------------------- *)

SiteMetaRow(siteName) ==
  LET m == siteMeta[siteName] IN
  [site_name |-> S(<<siteName>>), title |-> m.title,
   url_template |-> S(m.urlTemplate), type |-> m.type,
   regions |-> IF m.regions.kind # "absent"
               THEN S(Join(m.regions.a, ",")) ELSE Null]

RECURSIVE SiteMetaLoop(_, _, _)
\* the forEach over Object.keys(siteMeta) from key k on; the sink fails at
\* write f (0: never)
SiteMetaLoop(d, k, f) ==
  IF k > Len(siteMetaKeys) THEN Result(d, "none")
  ELSE LET row == SiteMetaRow(siteMetaKeys[k]) IN
       IF f = k THEN Result(d, "SQLITE_IOERR")
       ELSE IF ViolatesNotNull("site_meta", row)
       THEN Result(d, "SQLITE_CONSTRAINT_NOTNULL")
       ELSE SiteMetaLoop([d EXCEPT !.site_meta = InsertOrReplace(@, row)],
                         k + 1, f)

insertSiteMeta(d, f) == SiteMetaLoop(d, 1, f)

ItemRow(item) ==
  [id |-> 0, title |-> item.title, type |-> item.type, lang |-> item.lang,
   official_site |-> item.officialSite, begin |-> toTimestamp(item.begin),
   broadcast |-> OrNull(item.broadcast),
   broadcast_begin |-> extractBroadcastBegin(item.broadcast),
   end |-> toTimestamp(item.end), comment |-> OrNull(item.comment)]

TransRow(itemId, lang, t) ==
  [id |-> 0, item_id |-> itemId, language |-> S(<<lang>>), title |-> S(<<t>>)]

SiteRow(itemId, site) ==
  LET siteType == getSiteType(site)
      r == resolveUrl(site)
  IN [id |-> 0, item_id |-> itemId, site_name |-> S(<<site.site>>),
      site_title |-> r.siteTitle, site_type |-> siteType,
      site_id |-> OrNull(site.id), url |-> OrNull(site.url),
      url_template |-> r.urlTemplate, url_resolved |-> r.url,
      begin |-> toTimestamp(site.begin), end |-> toTimestamp(site.end),
      broadcast |-> OrNull(site.broadcast),
      broadcast_begin |-> extractBroadcastBegin(site.broadcast),
      comment |-> OrNull(site.comment), regions |-> siteRegions(site)]

RECURSIVE TitlesLoop(_, _, _)
\* for (const t of titles)
TitlesLoop(itemId, lang, titles) ==
  IF titles = <<>> THEN <<>>
  ELSE <<[table |-> "title_translations",
          row |-> TransRow(itemId, lang, Head(titles))]>>
       \o TitlesLoop(itemId, lang, Tail(titles))

RECURSIVE EntriesLoop(_, _)
\* for (const [lang, titles] of Object.entries(item.titleTranslate))
EntriesLoop(itemId, entries) ==
  IF entries = <<>> THEN <<>>
  ELSE TitlesLoop(itemId, Head(entries).lang, Head(entries).titles)
       \o EntriesLoop(itemId, Tail(entries))

\* item.sites.forEach
SitesLoop(itemId, sites) ==
  [k \in 1..Len(sites) |-> [table |-> "sites", row |-> SiteRow(itemId, sites[k])]]

RECURSIVE RunAll(_, _, _)
\* the statements run in order, until one throws; the sink fails at the
\* f-th of them (f < 1: at none)
RunAll(d, stmts, f) ==
  IF stmts = <<>> THEN Result(d, "none")
  ELSE LET r == InsertAuto(d, Head(stmts).table, Head(stmts).row, f = 1) IN
       IF r.err # "none" THEN r ELSE RunAll(r.db, Tail(stmts), f - 1)

\* the number of inserts insertItem makes for an item
NumWrites(item) ==
  1 + Len(EntriesLoop(0, item.titleTranslate)) + Len(item.sites)

\* insertItem(item), the sink failing at its f-th insert (0: at none)
insertItem(d, item, f) ==
  LET r1 == InsertAuto(d, "items", ItemRow(item), f = 1) IN
  IF r1.err # "none" THEN r1
  ELSE LET itemId == LastInsertRowid(r1.db, "items")
           trans == EntriesLoop(itemId, item.titleTranslate)
           r2 == RunAll(r1.db, trans, f - 1)
       IN IF r2.err # "none" THEN r2
          ELSE RunAll(r2.db, SitesLoop(itemId, item.sites),
                      f - 1 - Len(trans))

\* Date.prototype.toISOString of an instant within the epoch's first second
ToISOString(ts) ==
  LET ms == NatToStr(ts)
      pad == IF Len(ms) = 1 THEN <<"0", "0">>
             ELSE IF Len(ms) = 2 THEN <<"0">> ELSE <<>>
  IN <<"1970-01-01T00:00:00.">> \o pad \o ms \o <<"Z">>

\* the nine insert.run calls of insertMeta, in order
MetaWrites(src, d, ts) ==
  LET itemCount == CountRows(d, "items")
      siteCount == CountRows(d, "sites")
  IN <<[key |-> "version", value |-> src.version],
       [key |-> "generated_at", value |-> S(NatToStr(ts))],
       [key |-> "generated_at_iso", value |-> S(ToISOString(ts))],
       [key |-> "generator",
        value |-> S(<<"https://github.com/daonvshu/bangumi-data-db">>)],
       [key |-> "node_version", value |-> S(<<"v20.11.0">>)],
       [key |-> "sqlite_version", value |-> S(<<"3.45.3">>)],
       [key |-> "item_count", value |-> S(NatToStr(itemCount))],
       [key |-> "site_count", value |-> S(NatToStr(siteCount))],
       [key |-> "data_checksum", value |-> fileHash(src)]>>

RECURSIVE MetaLoop(_, _, _)
MetaLoop(d, writes, f) ==
  IF writes = <<>> THEN Result(d, "none")
  ELSE IF f = 1 THEN Result(d, "SQLITE_IOERR")
  ELSE MetaLoop([d EXCEPT !.meta = Upsert(@, Head(writes).key, Head(writes).value)],
                Tail(writes), f - 1)

\* insertMeta(): f = -1 when package.json or data.json cannot be read, else
\* the sink fails at write f (0: never)
insertMeta(src, d, ts, f) ==
  IF f = -1 THEN Result(d, "ENOENT")
  ELSE MetaLoop(d, MetaWrites(src, d, ts), f)

\* where main is after tx() has thrown: nothing catches, the process ends
OnTxFailureSwallowed == "meta"

OnTxFailure == "aborted"

(* ------------------------------- main --------------------------------- *)

NoResult == [url |-> Null, urlTemplate |-> Null, siteTitle |-> Null]

\* the row counts of the three item tables
RowCounts(d) == <<Len(d.items), Len(d.title_translations), Len(d.sites)>>

\* history: the database when the run started (runStart) and when its current
\* phase started (phaseStart), the phase whose failure ended the run
\* (failedAt), the number of complete runs so far (completed) and the row
\* counts the first complete run left (firstRows)
NoHistory ==
  [runStart |-> EmptyDb, phaseStart |-> EmptyDb, failedAt |-> "none",
   completed |-> 0, firstRows |-> <<0, 0, 0>>]

Init ==
  /\ source \in Datasets
  /\ db = EmptyDb
  /\ pc = "start"
  /\ pos = 0
  /\ journal = NoJournal
  /\ run = 1
  /\ now = 1
  /\ err = "none"
  /\ hist = NoHistory
  /\ arg = BaseSite("")
  /\ ret = NoResult

\* createTables()
Start ==
  /\ pc = "start"
  /\ db' = createTables(db)
  /\ pc' = "siteMeta"
  /\ hist' = [hist EXCEPT !.runStart = db', !.phaseStart = db',
                          !.failedAt = "none"]
  /\ UNCHANGED <<source, pos, journal, run, now, err, arg, ret>>

\* insertSiteMeta()
InsertSiteMeta ==
  /\ pc = "siteMeta"
  /\ \E f \in 0..Len(siteMetaKeys) :
       LET r == insertSiteMeta(db, f) IN
       /\ db' = r.db
       /\ err' = r.err
       /\ IF r.err = "none"
          THEN pc' = "tx" /\ hist' = [hist EXCEPT !.phaseStart = db']
          ELSE pc' = "aborted" /\ hist' = [hist EXCEPT !.failedAt = "siteMeta"]
  /\ UNCHANGED <<source, pos, journal, run, now, arg, ret>>

\* tx(): BEGIN
BeginTx ==
  /\ pc = "tx"
  /\ journal' = [active |-> TRUE, snap |-> db]
  /\ pos' = 1
  /\ pc' = "items"
  /\ UNCHANGED <<source, db, run, now, err, hist, arg, ret>>

\* one turn of for (const item of items) insertItem(item)
InsertItem ==
  /\ pc = "items"
  /\ pos <= Len(source.items)
  /\ \E f \in 0..NumWrites(source.items[pos]) :
       LET r == insertItem(db, source.items[pos], f) IN
       IF r.err = "none"
       THEN /\ db' = r.db
            /\ pos' = pos + 1
            /\ UNCHANGED <<pc, journal, err, hist>>
       ELSE /\ db' = Rollback(r.db, journal)
            /\ journal' = NoJournal
            /\ pc' = OnTxFailure
            /\ err' = r.err
            /\ hist' = [hist EXCEPT !.failedAt = "items"]
            /\ UNCHANGED pos
  /\ UNCHANGED <<source, run, now, arg, ret>>

\* tx(): COMMIT, which the sink may fail
CommitTx ==
  /\ pc = "items"
  /\ pos > Len(source.items)
  /\ \E fault \in BOOLEAN :
       IF fault
       THEN /\ db' = Rollback(db, journal)
            /\ pc' = OnTxFailure
            /\ err' = "SQLITE_IOERR"
            /\ hist' = [hist EXCEPT !.failedAt = "items"]
       ELSE /\ pc' = "meta"
            /\ hist' = [hist EXCEPT !.phaseStart = db]
            /\ UNCHANGED <<db, err>>
  /\ journal' = NoJournal
  /\ UNCHANGED <<source, pos, run, now, arg, ret>>

\* insertMeta()
InsertMeta ==
  /\ pc = "meta"
  /\ \E f \in -1..9 :
       LET r == insertMeta(source, db, now, f) IN
       /\ db' = r.db
       /\ IF r.err = "none"
          THEN /\ pc' = "done"
               /\ hist' = [hist EXCEPT
                            !.completed = @ + 1,
                            !.firstRows = IF hist.completed = 0
                                          THEN RowCounts(db') ELSE @]
               /\ UNCHANGED err
          ELSE /\ pc' = "aborted"
               /\ err' = r.err
               /\ hist' = [hist EXCEPT !.failedAt = "meta"]
  /\ UNCHANGED <<source, pos, journal, run, now, arg, ret>>

\* the script is started again, later, on the same bangumi.db and dataset
Rerun ==
  /\ pc \in {"done", "aborted"}
  /\ run < MaxRuns
  /\ pc' = "start"
  /\ run' = run + 1
  /\ now' = now + 1
  /\ err' = "none"
  /\ pos' = 0
  /\ UNCHANGED <<source, db, journal, hist, arg, ret>>

Next ==
  \/ Start
  \/ InsertSiteMeta
  \/ BeginTx
  \/ InsertItem
  \/ CommitTx
  \/ InsertMeta
  \/ Rerun

Spec == Init /\ [][Next]_vars

(* --------------------- a call of resolveUrl alone --------------------- *)

SiteInputs ==
  {[BaseSite(name) EXCEPT !.id = id, !.url = url, !.hasBegin = b] :
     name \in {"bangumi", "bilibili", "dmhy", "nicovideo"},
     id \in {Undef, S(<<>>), S(<<"5">>), N(<<"0">>), N(<<"42">>), S(<<"k", "$&">>)},
     url \in {Undef, S(<<>>), S(<<"https://x.example">>)},
     b \in BOOLEAN}

InitPure ==
  /\ source = [items |-> <<>>, version |-> S(<<"0.3.150">>),
               dataHash |-> S(<<"sha256:", "data.json">>)]
  /\ db = EmptyDb
  /\ pc = "call"
  /\ pos = 0
  /\ journal = NoJournal
  /\ run = 1
  /\ now = 1
  /\ err = "none"
  /\ hist = NoHistory
  /\ arg \in SiteInputs
  /\ ret = NoResult

CallResolveUrl ==
  /\ pc = "call"
  /\ ret' = resolveUrl(arg)
  /\ pc' = "returned"
  /\ UNCHANGED <<source, db, pos, journal, run, now, err, hist, arg>>

NextPure == CallResolveUrl

SpecPure == InitPure /\ [][NextPure]_vars

(* ------------------------------ the claims ---------------------------- *)

TxTables(d) == <<d.items, d.title_translations, d.sites>>

RECURSIVE FlatTitles(_)
\* the (language, title) pairs of a titleTranslate, flattened
FlatTitles(entries) ==
  IF entries = <<>> THEN <<>>
  ELSE [k \in 1..Len(Head(entries).titles) |->
          <<Head(entries).lang, Head(entries).titles[k]>>]
       \o FlatTitles(Tail(entries))

RECURSIVE SumOver(_, _)
SumOver(F(_), n) == IF n = 0 THEN 0 ELSE SumOver(F, n - 1) + F(n)

SourceTitles(k) == Len(FlatTitles(source.items[k].titleTranslate))

SourceSites(k) == Len(source.items[k].sites)

\* the row counts one full load of the source adds
SourceCounts ==
  <<Len(source.items), SumOver(SourceTitles, Len(source.items)),
    SumOver(SourceSites, Len(source.items))>>

\* C1: when the item transaction fails (at any insert of any item, or at the
\* commit), items, title_translations and sites are what they were when the
\* phase started; and whenever a run is past the item phase or has ended, the
\* three tables hold either exactly what they held when the run started or
\* that plus the rows of every item of the source, never of some items only.
C1_ItemBatchAllOrNothing ==
  /\ hist.failedAt = "items" => TxTables(db) = TxTables(hist.phaseStart)
  /\ pc \in {"meta", "done", "aborted"} =>
       \/ TxTables(db) = TxTables(hist.runStart)
       \/ /\ RowCounts(db) =
               <<RowCounts(hist.runStart)[1] + SourceCounts[1],
                 RowCounts(hist.runStart)[2] + SourceCounts[2],
                 RowCounts(hist.runStart)[3] + SourceCounts[3]>>
          /\ hist.failedAt \in {"none", "meta"}

\* C1 witness: the second item's insertion failed after the first item and
\* its children had been written inside the transaction
C1_Witness ==
  /\ hist.failedAt = "items"
  /\ pc = "aborted"
  /\ pos = 2
  /\ NumWrites(source.items[1]) > 1

\* C2, as claimed: after every complete run from the second on, the three
\* item tables hold as many rows as after the first complete run.
C2_RerunDoesNotDuplicate ==
  (pc = "done" /\ hist.completed >= 2) => RowCounts(db) = hist.firstRows

MissSites(item) == {k \in 1..Len(item.sites) : ~InCatalog(item.sites[k].site)}

\* C3, as claimed: no run is ended by a site whose name the catalog lacks,
\* and a complete run has persisted each such site as a row with a null site
\* title and url template.
C3_CatalogMissNotFatal ==
  /\ err # "SQLITE_CONSTRAINT_NOTNULL"
  /\ pc = "done" =>
       \A i \in 1..Len(source.items) :
         \A k \in MissSites(source.items[i]) :
           \E n \in 1..Len(db.sites) :
             /\ db.sites[n].site_name = S(<<source.items[i].sites[k].site>>)
             /\ db.sites[n].site_title = Null
             /\ db.sites[n].url_template = Null

Carries(x) == x.t \notin {"undefined", "null"}

\* the template with its placeholder replaced by the text of the id
Substituted(template, id) ==
  LET i == IndexOf(template, "{{id}}") IN
  SubSeq(template, 1, i - 1) \o id.v \o SubSeq(template, i + 1, Len(template))

\* C4, as claimed: on a catalog miss the result is the site's url or null
\* with a null template and title; on a hit the template and title are the
\* catalog's and the url is the site's own whenever it carries one (an empty
\* string included), else the template with {{id}} replaced by the id
\* whenever it carries one (0 included), else null.
C4_ResolveUrlPrecedence ==
  pc = "returned" =>
    IF ~InCatalog(arg.site)
    THEN ret = [url |-> IF Carries(arg.url) THEN arg.url ELSE Null,
                urlTemplate |-> Null, siteTitle |-> Null]
    ELSE /\ ret.urlTemplate = S(siteMeta[arg.site].urlTemplate)
         /\ ret.siteTitle = siteMeta[arg.site].title
         /\ ret.url = IF Carries(arg.url) THEN arg.url
                      ELSE IF Carries(arg.id)
                      THEN S(Substituted(siteMeta[arg.site].urlTemplate, arg.id))
                      ELSE Null

\* the items rows that the k-th source item's rows must carry as item_id
RECURSIVE ExpectedTitles(_)
ExpectedTitles(k) ==
  IF k = 0 THEN <<>>
  ELSE ExpectedTitles(k - 1) \o
       [j \in 1..SourceTitles(k) |->
          <<db.items[k].id,
            S(<<FlatTitles(source.items[k].titleTranslate)[j][1]>>),
            S(<<FlatTitles(source.items[k].titleTranslate)[j][2]>>)>>]

RECURSIVE ExpectedSites(_)
ExpectedSites(k) ==
  IF k = 0 THEN <<>>
  ELSE ExpectedSites(k - 1) \o
       [j \in 1..SourceSites(k) |->
          <<db.items[k].id, S(<<source.items[k].sites[j].site>>),
            OrNull(source.items[k].sites[j].id),
            OrNull(source.items[k].sites[j].url)>>]

\* C5: after a complete run that started on empty item tables, items holds
\* one row per source item in source order, with distinct ids;
\* title_translations holds, in order, one row per title of each language of
\* each item, and sites one row per site of each item, each carrying the id
\* of the items row of its own item.
C5_RowsAreImageOfSource ==
  (pc = "done" /\ TxTables(hist.runStart) = <<<<>>, <<>>, <<>>>>) =>
    /\ Len(db.items) = Len(source.items)
    /\ \A k \in 1..Len(db.items) : db.items[k].title = source.items[k].title
    /\ \A k, m \in 1..Len(db.items) : k # m => db.items[k].id # db.items[m].id
    /\ [n \in 1..Len(db.title_translations) |->
          <<db.title_translations[n].item_id, db.title_translations[n].language,
            db.title_translations[n].title>>]
         = ExpectedTitles(Len(source.items))
    /\ [n \in 1..Len(db.sites) |->
          <<db.sites[n].item_id, db.sites[n].site_name, db.sites[n].site_id,
            db.sites[n].url>>]
         = ExpectedSites(Len(source.items))

\* C5 witness: a complete first load of two items, the second one with
\* titles and with two sites of the same name
C5_Witness ==
  /\ pc = "done"
  /\ TxTables(hist.runStart) = <<<<>>, <<>>, <<>>>>
  /\ Len(db.items) = 2
  /\ source.items[2] = ItemB
  /\ Len(db.sites) >= 3

MetaKeys ==
  {"version", "generated_at", "generated_at_iso", "generator", "node_version",
   "sqlite_version", "item_count", "site_count", "data_checksum"}

RowsWithKey(rows, key) == {k \in 1..Len(rows) : rows[k].key = key}

RowsOfSite(rows, name) == {k \in 1..Len(rows) : rows[k].site_name = S(<<name>>)}

MetaValue(key) == db.meta[CHOOSE k \in 1..Len(db.meta) : db.meta[k].key = key].value

\* C6: from the first complete run on, whatever later runs do, meta holds
\* exactly one row for each of the nine provenance keys and no other row,
\* site_meta exactly one row for each catalog name and no other row; and a
\* complete run leaves its own generation instant in the generated_at row.
C6_UpsertKeepsRowCounts ==
  hist.completed >= 1 =>
    /\ Len(db.meta) = 9
    /\ \A key \in MetaKeys : Cardinality(RowsWithKey(db.meta, key)) = 1
    /\ Len(db.site_meta) = Len(siteMetaKeys)
    /\ \A k \in 1..Len(siteMetaKeys) :
         Cardinality(RowsOfSite(db.site_meta, siteMetaKeys[k])) = 1
    /\ pc = "done" => MetaValue("generated_at") = S(NatToStr(now))

\* C6 witness: a second complete run has ended
C6_Witness == pc = "done" /\ hist.completed >= 2 /\ run >= 2

DigitValue(tok) == CHOOSE d \in 0..9 : NatToStr(d) = <<tok>>

RECURSIVE ParseNat(_)
\* the number a string of decimal digits denotes
ParseNat(s) ==
  IF s = <<>> THEN 0
  ELSE 10 * ParseNat(SubSeq(s, 1, Len(s) - 1)) + DigitValue(s[Len(s)])

\* C7: when a run completes, the meta values item_count and site_count are
\* the decimal numbers of rows the items and sites tables hold at that moment.
C7_CountsArePersistedRows ==
  pc = "done" =>
    /\ ParseNat(MetaValue("item_count").v) = Len(db.items)
    /\ ParseNat(MetaValue("site_count").v) = Len(db.sites)

\* C7 witness: a complete run on tables that held rows of an earlier run, so
\* that the persisted rows outnumber the source's
C7_Witness ==
  /\ pc = "done"
  /\ Len(hist.runStart.items) > 0
  /\ Len(db.items) > Len(source.items)
  /\ Len(db.sites) > SourceCounts[3]

\* C8: once the item transaction has failed, the run is over with an error
\* (main is aborted, or the script has been started anew) and the meta table
\* is what it was when the run started.
C8_FailedBatchWritesNoMeta ==
  hist.failedAt = "items" =>
    /\ pc \in {"aborted", "start"}
    /\ pc = "aborted" => err # "none"
    /\ db.meta = hist.runStart.meta

\* C8 witness: the item transaction of a later run failed, with the meta rows
\* of an earlier complete run in the table
C8_Witness ==
  /\ hist.failedAt = "items"
  /\ pc = "aborted"
  /\ hist.completed >= 1
  /\ Len(db.meta) = 9

\* C9, as claimed: when insertSiteMeta or insertMeta fails, the table it
\* writes is what it was when that phase started.
C9_MetaPhasesAtomic ==
  /\ hist.failedAt = "meta" => db.meta = hist.phaseStart.meta
  /\ hist.failedAt = "siteMeta" => db.site_meta = hist.phaseStart.site_meta

\* C10, as claimed: no sites row holds an empty string as its regions.
C10_RegionsNeverEmptyString ==
  \A n \in 1..Len(db.sites) : db.sites[n].regions # S(<<>>)

====
